---- MODULE Spec2Model ----
\* hbcdump (tools/hbcdump/hbcdump.cpp): the command interpreter of the Hermes
\* bytecode dump tool -- tokenizer, dispatcher, scoped disassembly options,
\* help registry and the startup/interactive command loop.
EXTENDS Integers, Sequences, FiniteSets, TLC

VARIABLES
  showSectionRanges,\* --show-section-ranges (86-89)
  profileFile,      \* TRUE when --profile-file names a file (81-84)
  fault,            \* the startup step that fails in this run, or "none"
  exitCode,         \* main's return value, meaningful once pc = "exit"
  cinFail,          \* std::cin carries an error state (eofbit/failbit)
  startupCommands,  \* the -c list, already split on ';' (main, 452-460)
  outFile,          \* TRUE when --out names a file (main, 462-472)
  format,           \* DisassemblyOutputFormat (62-74)
  options,          \* the disassembler's option mask (BytecodeDisassembler)
  pc,               \* position inside main and enterCommandLoop
  idx,              \* index of the next startup command (for loop, 228)
  terminateLoop,    \* local of enterCommandLoop (227)
  line,             \* the line filled in by getline (236-237)
  interrupts,       \* number of EINTR results seen by getline so far
  reads,            \* number of completed getline calls
  output,           \* every write so far, in order: [stream, text]
  trace             \* history: dispatch / prompt / read events, in order

vars == <<showSectionRanges, profileFile, fault, exitCode, cinFail,
          startupCommands, outFile, format, options, pc, idx, terminateLoop,
          line, interrupts, reads, output, trace>>

----------------------------------------------------------------------------
\* Bounds of the model.

MaxLineLen == 7      \* atoms and spaces in one input line
MaxStartup == 2      \* startup commands in the -c list
MaxReads == 2        \* lines read at the prompt
MaxInterrupts == 1   \* interrupted reads per session
FunctionCount == 2   \* functions in the loaded bytecode file

----------------------------------------------------------------------------
\* Input alphabet.  A line is a sequence of atoms; the atom " " is one space
\* character, every other atom is a maximal run of non-space characters.

SP == " "

CommandNames ==
  {"function", "fun", "instruction", "inst", "disassemble", "dis",
   "string", "str", "filename", "function-info", "io", "summary", "sum",
   "block", "at_virtual", "at-virtual", "epilogue", "epi", "help", "h",
   "quit"}

FirstAtoms == CommandNames \cup {"bogus"}

ArgAtoms == {"-used", "-offsets", "0", "1", "2", "9", "x", "string"}

Last(s) == s[Len(s)]

\* All lines of length n: the atoms before the first space are command
\* position atoms, the atoms after it are argument position atoms, and two
\* non-space atoms are never adjacent (they would be one atom).
RECURSIVE LinesOfLen(_)
LinesOfLen(n) ==
  IF n = 0 THEN {<<>>}
  ELSE LET P == LinesOfLen(n - 1)
       IN  {s \o <<SP>> : s \in P}
           \cup {s \o <<a>> : s \in {p \in P : p = <<>>}, a \in FirstAtoms}
           \cup {s \o <<a>> : s \in {p \in P : p # <<>> /\ Last(p) = SP},
                              a \in ArgAtoms}

Lines == UNION {LinesOfLen(n) : n \in 0..MaxLineLen}

----------------------------------------------------------------------------
\* Streams and rendered text.

Outs == "stdout"     \* llvh::outs()
FileOS == "file"     \* the raw_fd_ostream opened for --out

W(stream, text) == [stream |-> stream, text |-> text]

Blank == <<"\n">>
Prompt == <<"hbcdump> ">>
TopLevelHelpText == <<"These commands are defined internally.">>
UsageText(name) == <<"USAGE", name>>
InvalidCommand(name) == <<"Invalid command: ", name, "\n">>
CannotParse(what) == <<"Error: cannot parse ", what, " as integer.\n">>
NoFunction(funcId) ==
  <<"Error: no function with id: ", ToString(funcId), " exists.\n">>
InvalidOffset(off) == <<"Virtual offset ", ToString(off), " is invalid.\n">>
EngineText(op, args) == <<"engine", op>> \o [i \in 1..Len(args) |-> ToString(args[i])]

----------------------------------------------------------------------------
\* Library and engine operations the dispatcher calls.

\* llvh::StringRef::split(tokens, ' ')
RECURSIVE SplitRec(_, _)
SplitRec(s, cur) ==
  IF s = <<>> THEN <<cur>>
  ELSE IF Head(s) = SP THEN <<cur>> \o SplitRec(Tail(s), "")
  ELSE SplitRec(Tail(s), Head(s))

split(s) == IF s = <<>> THEN <<>> ELSE SplitRec(s, "")

\* llvh::StringRef::getAsInteger(0, uint32_t &): fail is the C++ return value
getAsInteger(tok) ==
  CASE tok = "0" -> [fail |-> FALSE, value |-> 0]
    [] tok = "1" -> [fail |-> FALSE, value |-> 1]
    [] tok = "2" -> [fail |-> FALSE, value |-> 2]
    [] tok = "9" -> [fail |-> FALSE, value |-> 9]
    [] OTHER -> [fail |-> TRUE, value |-> 0]

\* ProfileAnalyzer::getFunctionFromVirtualOffset: {} is llvh::None
getFunctionFromVirtualOffset(virtualOffset) ==
  IF virtualOffset >= 1 /\ virtualOffset <= FunctionCount
  THEN {virtualOffset - 1} ELSE {}

\* DisassemblyOptions is a bit mask; a mask is the set of its bits
OptNone == {}
OptOr(a, b) == a \cup b

----------------------------------------------------------------------------
\* printHelp

commandToHelpText ==
  {"function", "instruction", "disassemble", "summary", "io", "block",
   "at-virtual", "help", "function-info", "string", "filename", "epilogue"}

\* iteration order of the unordered_map in the listing
commandToHelpTextOrder ==
  <<"function", "instruction", "disassemble", "summary", "io", "block",
    "at-virtual", "help", "function-info", "string", "filename", "epilogue">>

\* a lookup whose miss does not return and goes on to the listing
printHelpMissFallsThrough(command) ==
  IF command # <<>> /\ command[1] # ""
  THEN IF command[1] \notin commandToHelpText
       THEN <<W(Outs, InvalidCommand(command[1])), W(Outs, TopLevelHelpText)>>
            \o [i \in 1..Len(commandToHelpTextOrder) |->
                  W(Outs, <<commandToHelpTextOrder[i], "\n">>)]
       ELSE <<W(Outs, UsageText(command[1]))>>
  ELSE <<W(Outs, TopLevelHelpText)>>
       \o [i \in 1..Len(commandToHelpTextOrder) |->
             W(Outs, <<commandToHelpTextOrder[i], "\n">>)]

\* command is <<>> (llvh::None) or <<name>>
printHelp(command) ==
  IF command # <<>> /\ command[1] # ""
  THEN IF command[1] \notin commandToHelpText
       THEN <<W(Outs, InvalidCommand(command[1]))>>
       ELSE <<W(Outs, UsageText(command[1]))>>
  ELSE <<W(Outs, TopLevelHelpText)>>
       \o [i \in 1..Len(commandToHelpTextOrder) |->
             W(Outs, <<commandToHelpTextOrder[i], "\n">>)]

----------------------------------------------------------------------------
\* findAndRemoveOne and DisassemblerOptionsHolder

Min(S) == CHOOSE x \in S : \A y \in S : x <= y

\* a search that only looks at the last element
findAndRemoveOnlyLast(haystack, needle) ==
  IF haystack # <<>> /\ haystack[Len(haystack)] = needle
  THEN [found |-> TRUE, rest |-> SubSeq(haystack, 1, Len(haystack) - 1)]
  ELSE [found |-> FALSE, rest |-> haystack]

findAndRemoveOne(haystack, needle) ==
  LET hits == {i \in 1..Len(haystack) : haystack[i] = needle}
  IN  IF hits = {} THEN [found |-> FALSE, rest |-> haystack]
      ELSE [found |-> TRUE,
            rest |-> SubSeq(haystack, 1, Min(hits) - 1)
                     \o SubSeq(haystack, Min(hits) + 1, Len(haystack))]

\* a holder whose constructor does not install the new mask
HolderAcquireKeepsCurrent(current, newOptions) == current

\* constructor: the disassembler's options while the holder is alive
HolderAcquire(current, newOptions) == newOptions

\* a holder whose destructor leaves the overridden mask in place
HolderReleaseLeak(savedOptions, current) == current

\* destructor: the disassembler's options after the holder's scope ends
HolderRelease(savedOptions, current) == savedOptions

----------------------------------------------------------------------------
\* executeCommand: the result of one dispatch.
\*   term    : the return value (TRUE tells the caller to terminate the loop)
\*   out     : the writes of this dispatch, in order
\*   calls   : the engine operations invoked, with the option mask in effect
\*   options : the disassembler's option mask when executeCommand returns

Ret(term, out, calls, opts) ==
  [term |-> term, out |-> out, calls |-> calls, options |-> opts]

Call(op, args, opts) == [op |-> op, args |-> args, options |-> opts]

\* the engines render to the stream they were constructed with or are passed
Render(os, op, args, opts) ==
  [out |-> <<W(os, EngineText(op, args))>>, calls |-> <<Call(op, args, opts)>>]

\* os << "\n"; return false;
TrailingNewline(os, opts, r) ==
  Ret(FALSE, r.out \o <<W(os, Blank)>>, r.calls, opts)

\* empty input that falls through to the help listing
EmptyInputPrintsHelp(opts) == Ret(FALSE, printHelp(<<>>), <<>>, opts)

\* if (commandTokens.empty()) return false;
EmptyInput(opts) == Ret(FALSE, <<>>, <<>>, opts)

\* a parse failure that falls through to the usage text
ParseErrorFallsToUsage(os, opts, command, what) ==
  Ret(FALSE, <<W(os, CannotParse(what))>> \o printHelp(<<command>>), <<>>, opts)

\* os << "Error: cannot parse ... as integer.\n"; return false;
ParseError(os, opts, command, what) ==
  Ret(FALSE, <<W(os, CannotParse(what))>>, <<>>, opts)

\* printHelp(command); return false;
UsageError(opts, command) == Ret(FALSE, printHelp(<<command>>), <<>>, opts)

cmdFunction(os, opts, command, commandTokens) ==
  LET r == findAndRemoveOne(commandTokens, "-used")
      t == r.rest
  IN  IF r.found
      THEN TrailingNewline(os, opts, Render(os, "dumpUsedFunctionIDs", <<>>, opts))
      ELSE IF Len(t) = 1
      THEN TrailingNewline(os, opts, Render(os, "dumpFunctionStats", <<>>, opts))
      ELSE IF Len(t) = 2
      THEN LET funcId == getAsInteger(t[2])
           IN  IF funcId.fail
               THEN ParseError(os, opts, command, "func_id")
               ELSE TrailingNewline(os, opts,
                      Render(os, "dumpFunctionBasicBlockStat", <<funcId.value>>, opts))
      ELSE UsageError(opts, command)

cmdInstruction(os, opts, command, commandTokens) ==
  IF Len(commandTokens) = 1
  THEN TrailingNewline(os, opts, Render(os, "dumpInstructionStats", <<>>, opts))
  ELSE UsageError(opts, command)

\* a bound check that lets the id equal to the function count through
OutOfRangeOffByOne(funcId) == funcId > FunctionCount

\* if (funcId >= disassembler.getFunctionCount())
OutOfRange(funcId) == funcId >= FunctionCount

\* os << "Error: no function with id: ..."; return false;
RangeError(os, opts, funcId) ==
  Ret(FALSE, <<W(os, NoFunction(funcId))>>, <<>>, opts)

\* the body of the disassemble branch, run while the holder is alive
disassembleBody(os, opts, command, t) ==
  IF Len(t) = 1
  THEN TrailingNewline(os, opts, Render(os, "disassemble", <<>>, opts))
  ELSE IF Len(t) = 2
  THEN LET funcId == getAsInteger(t[2])
       IN  IF funcId.fail
           THEN ParseError(os, opts, command, "func_id")
           ELSE IF OutOfRange(funcId.value)
           THEN RangeError(os, opts, funcId.value)
           ELSE TrailingNewline(os, opts,
                  Render(os, "disassembleFunction", <<funcId.value>>, opts))
  ELSE UsageError(opts, command)

cmdDisassemble(os, opts, command, commandTokens) ==
  LET r == findAndRemoveOne(commandTokens, "-offsets")
      localOptions == IF r.found THEN {"IncludeVirtualOffsets"} ELSE OptNone
      savedOptions == opts
      held == HolderAcquire(opts, OptOr(opts, localOptions))
      b == disassembleBody(os, held, command, r.rest)
  IN  Ret(b.term, b.out, b.calls, HolderRelease(savedOptions, b.options))

cmdString(os, opts, command, commandTokens) ==
  IF Len(commandTokens) # 2
  THEN UsageError(opts, command)
  ELSE LET stringId == getAsInteger(commandTokens[2])
       IN  IF stringId.fail
           THEN ParseError(os, opts, command, "string_id")
           ELSE TrailingNewline(os, opts,
                  Render(os, "dumpString", <<stringId.value>>, opts))

cmdFilename(os, opts, command, commandTokens) ==
  IF Len(commandTokens) # 2
  THEN UsageError(opts, command)
  ELSE LET filenameId == getAsInteger(commandTokens[2])
       IN  IF filenameId.fail
           THEN ParseError(os, opts, command, "filename_id")
           ELSE TrailingNewline(os, opts,
                  Render(os, "dumpFileName", <<filenameId.value>>, opts))

cmdFunctionInfo(os, opts, command, commandTokens) ==
  IF Len(commandTokens) = 1
  THEN TrailingNewline(os, opts, Render(os, "dumpAllFunctionInfo", <<>>, opts))
  ELSE IF Len(commandTokens) = 2
  THEN LET funcId == getAsInteger(commandTokens[2])
       IN  IF funcId.fail
           THEN ParseError(os, opts, command, "func_id")
           ELSE TrailingNewline(os, opts,
                  Render(os, "dumpFunctionInfo", <<funcId.value>>, opts))
  ELSE UsageError(opts, command)

\* an unresolved offset that is rendered as if it were a function id
VirtualOffsetInvalidRenders(os, opts, virtualOffset) ==
  TrailingNewline(os, opts,
    [out |-> <<W(os, InvalidOffset(virtualOffset))>>
             \o Render(os, "dumpFunctionInfo", <<virtualOffset>>, opts).out,
     calls |-> <<Call("getFunctionFromVirtualOffset", <<virtualOffset>>, opts)>>
               \o Render(os, "dumpFunctionInfo", <<virtualOffset>>, opts).calls])

\* the else branch of funcId.hasValue(): the message, then control reaches
\* the end of executeCommand
VirtualOffsetInvalid(os, opts, virtualOffset) ==
  TrailingNewline(os, opts,
    [out |-> <<W(os, InvalidOffset(virtualOffset))>>,
     calls |-> <<Call("getFunctionFromVirtualOffset", <<virtualOffset>>, opts)>>])

cmdAtVirtual(os, opts, command, commandTokens) ==
  IF Len(commandTokens) = 2
  THEN LET virtualOffset == getAsInteger(commandTokens[2])
       IN  IF virtualOffset.fail
           THEN ParseError(os, opts, command, "virtualOffset")
           ELSE LET funcId == getFunctionFromVirtualOffset(virtualOffset.value)
                    q == Call("getFunctionFromVirtualOffset",
                              <<virtualOffset.value>>, opts)
                IN  IF funcId # {}
                    THEN LET id == CHOOSE f \in funcId : TRUE
                             r == Render(os, "dumpFunctionInfo", <<id>>, opts)
                         IN  TrailingNewline(os, opts,
                               [out |-> r.out, calls |-> <<q>> \o r.calls])
                    ELSE VirtualOffsetInvalid(os, opts, virtualOffset.value)
  ELSE UsageError(opts, command)

cmdHelp(opts, commandTokens) ==
  IF Len(commandTokens) = 2
  THEN Ret(FALSE, printHelp(<<commandTokens[2]>>), <<>>, opts)
  ELSE Ret(FALSE, printHelp(<<>>), <<>>, opts)

cmdQuit(opts) == Ret(TRUE, <<>>, <<>>, opts)

\* an unknown command that ends the loop
cmdUnknownTerminates(opts, command) ==
  Ret(TRUE, printHelp(<<command>>), <<>>, opts)

\* an unknown command that also gets the trailing blank line
cmdUnknownBlankLine(opts, command) ==
  Ret(FALSE, printHelp(<<command>>) \o <<W(Outs, Blank)>>, <<>>, opts)

\* the final else: printHelp(command); return false;
cmdUnknown(opts, command) == Ret(FALSE, printHelp(<<command>>), <<>>, opts)

\* a dispatcher that does not know the alias fun
IsFunctionCommandNoAlias(command) == command = "function"

\* command == "function" || command == "fun"
IsFunctionCommand(command) == command \in {"function", "fun"}

executeCommand(os, opts, commandWithOptions) ==
  LET commandTokens == split(commandWithOptions)
  IN  IF commandTokens = <<>>
      THEN EmptyInput(opts)
      ELSE LET command == commandTokens[1]
           IN CASE IsFunctionCommand(command) ->
                     cmdFunction(os, opts, command, commandTokens)
                [] command \in {"instruction", "inst"} ->
                     cmdInstruction(os, opts, command, commandTokens)
                [] command \in {"disassemble", "dis"} ->
                     cmdDisassemble(os, opts, command, commandTokens)
                [] command \in {"string", "str"} ->
                     cmdString(os, opts, command, commandTokens)
                [] command = "filename" ->
                     cmdFilename(os, opts, command, commandTokens)
                [] command = "function-info" ->
                     cmdFunctionInfo(os, opts, command, commandTokens)
                [] command = "io" ->
                     TrailingNewline(os, opts, Render(os, "dumpIO", <<>>, opts))
                [] command \in {"summary", "sum"} ->
                     TrailingNewline(os, opts, Render(os, "dumpSummary", <<>>, opts))
                [] command = "block" ->
                     TrailingNewline(os, opts,
                       Render(os, "dumpBasicBlockStats", <<>>, opts))
                [] command \in {"at_virtual", "at-virtual"} ->
                     cmdAtVirtual(os, opts, command, commandTokens)
                [] command \in {"epilogue", "epi"} ->
                     TrailingNewline(os, opts, Render(os, "dumpEpilogue", <<>>, opts))
                [] command \in {"help", "h"} -> cmdHelp(opts, commandTokens)
                [] command = "quit" -> cmdQuit(opts)
                [] OTHER -> cmdUnknown(opts, command)

----------------------------------------------------------------------------
\* enterCommandLoop

Formats == {"Raw", "Pretty", "Objdump"}

\* the option mask given to disassembler.setOptions at session start
BaselineOptions(fmt) ==
  LET base == OptOr({"IncludeSource"}, {"IncludeFunctionIds"})
  IN  CASE fmt = "Raw" -> base
        [] fmt = "Pretty" -> OptOr(base, {"Pretty"})
        [] fmt = "Objdump" -> OptOr(base, {"Objdump"})

\* auto &output = fileOS ? *fileOS : llvh::outs();
ActiveStream(hasFile) == IF hasFile THEN FileOS ELSE Outs

os == ActiveStream(outFile)

\* lines given with -c
StartupLines ==
  {<<>>, <<"quit">>, <<"summary">>,
   <<"dis", SP, "0", SP, "1", SP, "-offsets">>}

\* lines typed at the prompt
ReadLines ==
  {<<>>, <<"quit">>,
   <<"dis", SP, "0">>,
   <<"dis", SP, "0", SP, "-offsets">>,
   <<"dis", SP, "x", SP, "-offsets">>,
   <<"dis", SP, "9", SP, "-offsets">>,
   <<"at-virtual", SP, "0">>}

StartupLists == UNION {[1..n -> StartupLines] : n \in 0..MaxStartup}

NoRes == Ret(FALSE, <<>>, <<>>, {})

Event(kind, src, l, before, res) ==
  [kind |-> kind, src |-> src, line |-> l, before |-> before, res |-> res]

\* terminateLoop = executeCommand(...): a later command resets the flag
StartupTerminateOverwrite(old, ret) == ret

\* if (executeCommand(...)) terminateLoop = true;
StartupTerminate(old, ret) == IF ret THEN TRUE ELSE old

\* where control goes when the startup for loop is over: while (!terminateLoop)
LoopEntry(term) == IF term THEN "done" ELSE "prompt"

----------------------------------------------------------------------------
\* main

Errs == "stderr"     \* llvh::errs()

\* the step of main that fails: opening the input file, deserializing the
\* bytecode, opening the --out file, opening or parsing the --source-map
\* file, opening the --profile-file
Faults ==
  {"none", "inputOpen", "deserialize", "outOpen", "sourceMapOpen",
   "sourceMapParse", "profileOpen"}

\* a main that reports a profile file it cannot open and still returns 0
FailureCodeProfileIgnored(f) ==
  IF f = "deserialize" THEN 1 ELSE IF f = "profileOpen" THEN 0 ELSE 0 - 1

\* the value main returns after reporting the failure
FailureCode(f) == IF f = "deserialize" THEN 1 ELSE 0 - 1

ErrorText(f) ==
  CASE f = "inputOpen" -> <<"Error: fail to open file: ", "InputFilename">>
    [] f = "deserialize" -> <<"Error: fail to deserializing bytecode: ">>
    [] f = "outOpen" -> <<"Error: fail to open file ", "DumpOutputFilename">>
    [] f = "sourceMapOpen" -> <<"Error: fail to open file: ", "SourceMapFilename">>
    [] f = "sourceMapParse" -> <<"Error loading source map: ", "SourceMapFilename">>
    [] f = "profileOpen" -> <<"Error: fail to open file: ", "ProfileFile">>

SectionRanges == <<"section ranges">>

\* if (ProfileFile.empty()) { if (ShowSectionRanges) ... else ... } else ...
MainBranch(profile, show) ==
  IF ~profile THEN (IF show THEN "sections" ELSE "loop") ELSE "loop"

Init ==
  /\ showSectionRanges \in BOOLEAN
  /\ profileFile \in BOOLEAN
  /\ outFile \in BOOLEAN
  /\ fault \in Faults
  /\ fault = "outOpen" => outFile
  /\ fault = "profileOpen" => profileFile
  /\ exitCode = 0
  /\ cinFail = FALSE
  /\ startupCommands \in StartupLists
  /\ format \in Formats
  /\ options = OptNone
  /\ pc = "main"
  /\ idx = 1
  /\ terminateLoop = FALSE
  /\ line = <<>>
  /\ interrupts = 0
  /\ reads = 0
  /\ output = <<>>
  /\ trace = <<>>

\* one of the fatal startup failures: report to the error stream, return
MainFails ==
  /\ pc = "main"
  /\ fault # "none"
  /\ output' = Append(output, W(Errs, ErrorText(fault)))
  /\ exitCode' = FailureCode(fault)
  /\ pc' = "exit"
  /\ UNCHANGED <<showSectionRanges, profileFile, fault, cinFail,
                 startupCommands, outFile, format, options, idx,
                 terminateLoop, line, interrupts, reads, trace>>

\* walker.printSectionRanges(HumanizeSectionRanges); return 0;
MainShowSectionRanges ==
  /\ pc = "main"
  /\ fault = "none"
  /\ MainBranch(profileFile, showSectionRanges) = "sections"
  /\ output' = Append(output, W(os, SectionRanges))
  /\ exitCode' = 0
  /\ pc' = "exit"
  /\ UNCHANGED <<showSectionRanges, profileFile, fault, cinFail,
                 startupCommands, outFile, format, options, idx,
                 terminateLoop, line, interrupts, reads, trace>>

\* enterCommandLoop(...) up to the startup loop: the disassembler is built
\* and given the baseline options
MainEnterCommandLoop ==
  /\ pc = "main"
  /\ fault = "none"
  /\ MainBranch(profileFile, showSectionRanges) = "loop"
  /\ options' = BaselineOptions(format)
  /\ pc' = IF startupCommands = <<>> THEN LoopEntry(FALSE) ELSE "startup"
  /\ UNCHANGED <<showSectionRanges, profileFile, fault, exitCode, cinFail,
                 startupCommands, outFile, format, idx, terminateLoop, line,
                 interrupts, reads, output, trace>>

\* enterCommandLoop returned: return 0;
MainReturn ==
  /\ pc = "done"
  /\ exitCode' = 0
  /\ pc' = "exit"
  /\ UNCHANGED <<showSectionRanges, profileFile, fault, cinFail,
                 startupCommands, outFile, format, options, idx,
                 terminateLoop, line, interrupts, reads, output, trace>>

\* one iteration of the for loop over startupCommands
StartupStep ==
  /\ pc = "startup"
  /\ idx <= Len(startupCommands)
  /\ LET r == executeCommand(os, options, startupCommands[idx])
         t == StartupTerminate(terminateLoop, r.term)
     IN  /\ terminateLoop' = t
         /\ options' = r.options
         /\ output' = output \o r.out
         /\ trace' = Append(trace,
               Event("dispatch", "startup", startupCommands[idx], options, r))
         /\ idx' = idx + 1
         /\ pc' = IF idx + 1 > Len(startupCommands) THEN LoopEntry(t)
                  ELSE "startup"
  /\ UNCHANGED <<showSectionRanges, profileFile, fault, exitCode, cinFail,
                 startupCommands, outFile, format, line, interrupts, reads>>

\* os << "hbcdump> ";
PrintPrompt ==
  /\ pc = "prompt"
  /\ output' = Append(output, W(os, Prompt))
  /\ trace' = Append(trace, Event("prompt", "interactive", <<>>, {}, NoRes))
  /\ pc' = "getline"
  /\ UNCHANGED <<showSectionRanges, profileFile, fault, exitCode, cinFail,
                 startupCommands, outFile, format, options, idx,
                 terminateLoop, line, interrupts, reads>>

\* getline: std::getline succeeded, return true; a stream that carries an
\* error state delivers no line
GetlineOk ==
  /\ pc = "getline"
  /\ ~cinFail
  /\ reads < MaxReads
  /\ \E l \in ReadLines :
       /\ line' = l
       /\ trace' = Append(trace, Event("read", "interactive", l, {}, NoRes))
  /\ reads' = reads + 1
  /\ pc' = "dispatch"
  /\ UNCHANGED <<showSectionRanges, profileFile, fault, exitCode, cinFail,
                 startupCommands, outFile, format, options, idx,
                 terminateLoop, interrupts, output>>

\* an interrupted read that leaves the stream's error state as it found it
StreamAfterInterruptNoClear(marked) == marked

\* std::cin.clear() after a read that failed with EINTR; marked says whether
\* the library set the stream's error bits on the interruption
StreamAfterInterrupt(marked) == FALSE

\* getline: std::getline failed with errno == EINTR: cin.clear() and retry
GetlineInterrupted ==
  /\ pc = "getline"
  /\ ~cinFail
  /\ interrupts < MaxInterrupts
  /\ interrupts' = interrupts + 1
  /\ \E marked \in BOOLEAN : cinFail' = StreamAfterInterrupt(marked)
  /\ UNCHANGED <<showSectionRanges, profileFile, fault, exitCode,
                 startupCommands, outFile, format, options, pc, idx,
                 terminateLoop, line, reads, output, trace>>

\* getline: std::getline failed and errno is not EINTR (end of input, or a
\* stream already in an error state): return false; the while loop breaks
GetlineExhausted ==
  /\ pc = "getline"
  /\ trace' = Append(trace, Event("eof", "interactive", <<>>, {}, NoRes))
  /\ cinFail' = TRUE
  /\ pc' = "done"
  /\ UNCHANGED <<showSectionRanges, profileFile, fault, exitCode,
                 startupCommands, outFile, format, options, idx,
                 terminateLoop, line, interrupts, reads, output>>

\* terminateLoop = executeCommand(os, analyzer, disassembler, line);
DispatchLine ==
  /\ pc = "dispatch"
  /\ LET r == executeCommand(os, options, line)
     IN  /\ terminateLoop' = r.term
         /\ options' = r.options
         /\ output' = output \o r.out
         /\ trace' = Append(trace,
               Event("dispatch", "interactive", line, options, r))
         /\ pc' = LoopEntry(r.term)
  /\ UNCHANGED <<showSectionRanges, profileFile, fault, exitCode, cinFail,
                 startupCommands, outFile, format, idx, line, interrupts,
                 reads>>

Next ==
  \/ MainFails
  \/ MainShowSectionRanges
  \/ MainEnterCommandLoop
  \/ MainReturn
  \/ StartupStep
  \/ PrintPrompt
  \/ GetlineOk
  \/ GetlineInterrupted
  \/ GetlineExhausted
  \/ DispatchLine

Spec == Init /\ [][Next]_vars

----------------------------------------------------------------------------
\* executeCommand on its own: every line of Lines, dispatched from the state
\* enterCommandLoop sets up, one call at a time.

InitExec ==
  /\ showSectionRanges = FALSE
  /\ profileFile = FALSE
  /\ fault = "none"
  /\ exitCode = 0
  /\ cinFail = FALSE
  /\ startupCommands = <<>>
  /\ outFile \in BOOLEAN
  /\ format \in Formats
  /\ options = BaselineOptions(format)
  /\ pc = "call"
  /\ idx = 1
  /\ terminateLoop = FALSE
  /\ line = <<>>
  /\ interrupts = 0
  /\ reads = 0
  /\ output = <<>>
  /\ trace = <<>>

ExecOne ==
  /\ pc = "call"
  /\ \E l \in Lines :
       LET r == executeCommand(os, options, l)
       IN  /\ line' = l
           /\ terminateLoop' = r.term
           /\ options' = r.options
           /\ output' = r.out
           /\ trace' = <<Event("dispatch", "call", l, options, r)>>
  /\ pc' = "returned"
  /\ UNCHANGED <<showSectionRanges, profileFile, fault, exitCode, cinFail,
                 startupCommands, outFile, format, idx, interrupts, reads>>

NextExec == ExecOne

SpecExec == InitExec /\ [][NextExec]_vars

-----------------------------------------------------------------------------
\* The prompt loop on its own: enterCommandLoop has been called without
\* startup commands and stands at the head of while (!terminateLoop).  The
\* read either returns or is interrupted; a read that is not interrupted
\* again does return, which is the fairness condition.

InitLoop ==
  /\ showSectionRanges = FALSE
  /\ profileFile \in BOOLEAN
  /\ fault = "none"
  /\ exitCode = 0
  /\ cinFail = FALSE
  /\ startupCommands = <<>>
  /\ outFile \in BOOLEAN
  /\ format \in Formats
  /\ options = BaselineOptions(format)
  /\ pc = LoopEntry(FALSE)
  /\ idx = 1
  /\ terminateLoop = FALSE
  /\ line = <<>>
  /\ interrupts = 0
  /\ reads = 0
  /\ output = <<>>
  /\ trace = <<>>

NextLoop ==
  \/ PrintPrompt
  \/ GetlineOk
  \/ GetlineInterrupted
  \/ GetlineExhausted
  \/ DispatchLine
  \/ MainReturn

SpecLoop ==
  InitLoop /\ [][NextLoop]_vars /\ WF_vars(GetlineOk \/ GetlineExhausted)

----------------------------------------------------------------------------
\* Reading the history.

Dispatches == {i \in 1..Len(trace) : trace[i].kind = "dispatch"}

RenderOps ==
  {"dumpUsedFunctionIDs", "dumpFunctionStats", "dumpFunctionBasicBlockStat",
   "dumpInstructionStats", "disassemble", "disassembleFunction", "dumpString",
   "dumpFileName", "dumpAllFunctionInfo", "dumpFunctionInfo", "dumpIO",
   "dumpSummary", "dumpBasicBlockStats", "dumpEpilogue"}

TypeOK ==
  /\ pc \in {"main", "exit", "startup", "prompt", "getline", "dispatch",
            "done", "call", "returned"}
  /\ terminateLoop \in BOOLEAN
  /\ idx \in 1..(Len(startupCommands) + 1)

Range(f) == {f[i] : i \in DOMAIN f}

\* the first token of a line, read off the line itself
FirstToken(l) == IF l = <<>> \/ Head(l) = SP THEN "" ELSE Head(l)

Texts(out) == {out[i].text : i \in 1..Len(out)}

CannotParseTexts ==
  {CannotParse(w) : w \in {"func_id", "string_id", "filename_id", "virtualOffset"}}

UsageTexts == {UsageText(n) : n \in commandToHelpText}

RenderCalls(calls) == {k \in 1..Len(calls) : calls[k].op \in RenderOps}

----------------------------------------------------------------------------
\* C1: after any sequence of dispatched commands the disassembler's option
\* mask equals the baseline set at session start, also after a disassemble
\* command that ended in a usage, parse or range error, with or without
\* -offsets.
OptionsEqualBaseline ==
  /\ pc \in {"startup", "prompt", "getline", "dispatch", "done"}
       => options = BaselineOptions(format)
  /\ \A i \in Dispatches : trace[i].res.options = trace[i].before

\* a session in which disassemble with -offsets ended in a usage error, in a
\* parse error and in a range error
OptionsAfterFailedDisassemble ==
  /\ \E i \in Dispatches :
       /\ FirstToken(trace[i].line) \in {"disassemble", "dis"}
       /\ "-offsets" \in Range(trace[i].line)
       /\ Len(split(trace[i].line)) = 4
       /\ trace[i].res.calls = <<>>
  /\ \E i \in Dispatches :
       /\ "-offsets" \in Range(trace[i].line)
       /\ Texts(trace[i].res.out) = {CannotParse("func_id")}
  /\ \E i \in Dispatches :
       /\ "-offsets" \in Range(trace[i].line)
       /\ Texts(trace[i].res.out) = {NoFunction(9)}
  /\ options = BaselineOptions(format)

\* C2: when a startup command signals termination, no startup command after
\* it is dispatched.
NoStartupDispatchAfterTerminate ==
  \A i \in Dispatches : \A j \in Dispatches :
    (trace[i].src = "startup" /\ trace[j].src = "startup" /\ i < j)
      => ~trace[i].res.term

\* C3: if any startup command signals termination, the prompt is never
\* printed and no line is ever read.
NoPromptAfterStartupTerminate ==
  (\E i \in Dispatches : trace[i].src = "startup" /\ trace[i].res.term)
    => /\ \A k \in 1..Len(trace) : trace[k].kind \notin {"prompt", "read", "eof"}
       /\ \A k \in 1..Len(output) : output[k].text # Prompt
       /\ pc \in {"startup", "done", "exit"}
       /\ reads = 0

\* the startup list summary;quit has run: summary was dispatched, then quit,
\* and the session is over
SummaryQuitEnded ==
  /\ startupCommands = <<(<<"summary">>), (<<"quit">>)>>
  /\ pc = "done"
  /\ Len(trace) = 2
  /\ trace[1].res.calls # <<>>
  /\ trace[2].res.term

Canonical(c) ==
  CASE c = "fun" -> "function"
    [] c = "inst" -> "instruction"
    [] c = "dis" -> "disassemble"
    [] c = "str" -> "string"
    [] c = "at_virtual" -> "at-virtual"
    [] OTHER -> c

ArityNames ==
  {"function", "instruction", "disassemble", "string", "filename",
   "function-info", "at-virtual"}

LegalCounts(n) ==
  CASE n \in {"function", "disassemble", "function-info"} -> {1, 2}
    [] n = "instruction" -> {1}
    [] OTHER -> {2}

Remaining(t) ==
  CASE Canonical(t[1]) = "function" -> findAndRemoveOne(t, "-used").rest
    [] Canonical(t[1]) = "disassemble" -> findAndRemoveOne(t, "-offsets").rest
    [] OTHER -> t

ArityErrorRendersUsage ==
  \A i \in Dispatches :
    LET t == split(trace[i].line)
        r == trace[i].res
    IN  (/\ t # <<>>
         /\ Canonical(t[1]) \in ArityNames
         /\ Len(Remaining(t)) \notin LegalCounts(Canonical(t[1])))
          => /\ Len(r.out) = 1
             /\ r.out[1].text = UsageText(Canonical(t[1]))
             /\ r.calls = <<>>
             /\ ~r.term

\* C6: a numeric-argument command in its numeric form whose argument does
\* not parse writes only the cannot-parse message, never usage text, calls
\* no engine operation, writes no blank line and returns do-not-terminate.
NumericNames ==
  {"function", "disassemble", "string", "filename", "function-info",
   "at-virtual"}

NumericForm(t) ==
  /\ t # <<>>
  /\ Canonical(t[1]) \in NumericNames
  /\ Canonical(t[1]) = "function" => "-used" \notin Range(t)
  /\ Len(Remaining(t)) = 2

UnparsableArgumentRendersParseError ==
  \A i \in Dispatches :
    LET t == split(trace[i].line)
        r == trace[i].res
    IN  (NumericForm(t) /\ getAsInteger(Remaining(t)[2]).fail)
          => /\ Len(r.out) = 1
             /\ r.out[1].text \in CannotParseTexts
             /\ Texts(r.out) \cap UsageTexts = {}
             /\ r.calls = <<>>
             /\ ~r.term

UnparsableArgumentDispatched ==
  /\ trace # <<>>
  /\ Last(trace).kind = "dispatch"
  /\ split(Last(trace).line) = <<"at_virtual", "x">>
  /\ Texts(output) = {CannotParse("virtualOffset")}

\* C7: dispatch returns terminate if and only if the first token of the
\* line is exactly quit.
TerminateIffQuit ==
  \A i \in Dispatches :
    trace[i].res.term <=> FirstToken(trace[i].line) = "quit"

\* a quit line that carries further tokens has been dispatched and signalled
\* termination
QuitWithArgumentsTerminates ==
  /\ trace # <<>>
  /\ Last(trace).kind = "dispatch"
  /\ FirstToken(Last(trace).line) = "quit"
  /\ Len(split(Last(trace).line)) > 1
  /\ terminateLoop

\* C8: every write of a dispatch goes to the session's active output stream.
DispatchWritesToActiveStream ==
  \A i \in Dispatches :
    \A k \in 1..Len(trace[i].res.out) :
      trace[i].res.out[k].stream = ActiveStream(outFile)

\* C9: the number of trailing blank lines written equals the number of
\* commands dispatched successfully, i.e. that rendered engine output.
BlankLines == {k \in 1..Len(output) : output[k].text = Blank}

SuccessfulDispatches ==
  {i \in Dispatches : RenderCalls(trace[i].res.calls) # {}}

BlankLinePerSuccessfulCommand ==
  Cardinality(BlankLines) = Cardinality(SuccessfulDispatches)

\* C10: the session is a strict prompt-read-dispatch cycle: the startup
\* commands are dispatched in list order before the first prompt, each read
\* follows exactly one prompt, each line read is dispatched once before the
\* next prompt, and nothing follows a dispatch that returned terminate or a
\* read that reported input exhaustion.
CycleShape ==
  LET n == Len(startupCommands)
  IN  \A k \in 1..Len(trace) :
        IF k <= n
        THEN /\ trace[k].kind = "dispatch"
             /\ trace[k].src = "startup"
             /\ trace[k].line = startupCommands[k]
        ELSE CASE (k - n) % 3 = 1 -> trace[k].kind = "prompt"
               [] (k - n) % 3 = 2 -> trace[k].kind \in {"read", "eof"}
               [] OTHER -> /\ trace[k].kind = "dispatch"
                           /\ trace[k].src = "interactive"
                           /\ trace[k - 1].kind = "read"
                           /\ trace[k].line = trace[k - 1].line

PromptWrites == {k \in 1..Len(output) : output[k].text = Prompt}

PromptEvents == {k \in 1..Len(trace) : trace[k].kind = "prompt"}

StrictPromptReadDispatchCycle ==
  /\ CycleShape
  /\ Cardinality(PromptWrites) = Cardinality(PromptEvents)
  /\ \A k \in 1..(Len(trace) - 1) :
       /\ ~(trace[k].kind = "dispatch" /\ trace[k].res.term)
       /\ trace[k].kind # "eof"

\* C11: disassemble with an id that parses and is at least the function
\* count writes the range error, invokes neither disassembly render and
\* returns do-not-terminate; with an id below the function count the
\* single-function render is invoked exactly once with that id.
DisassembleWithId(t) ==
  /\ t # <<>>
  /\ Canonical(t[1]) = "disassemble"
  /\ Len(Remaining(t)) = 2
  /\ ~getAsInteger(Remaining(t)[2]).fail

CallsOf(calls, ops) == {k \in 1..Len(calls) : calls[k].op \in ops}

DisassembleRangeChecked ==
  \A i \in Dispatches :
    LET t == split(trace[i].line)
        r == trace[i].res
        id == getAsInteger(Remaining(t)[2]).value
    IN  DisassembleWithId(t)
          => /\ ~r.term
             /\ IF id >= FunctionCount
                THEN /\ Texts(r.out) = {NoFunction(id)}
                     /\ Len(r.out) = 1
                     /\ CallsOf(r.calls, {"disassemble", "disassembleFunction"}) = {}
                ELSE /\ Cardinality(CallsOf(r.calls, {"disassembleFunction"})) = 1
                     /\ CallsOf(r.calls, {"disassemble"}) = {}
                     /\ \A k \in CallsOf(r.calls, {"disassembleFunction"}) :
                          r.calls[k].args = <<id>>
                     /\ NoFunction(id) \notin Texts(r.out)

\* dis -offsets with an id that is not below the function count has been
\* dispatched and refused
DisassembleAtFunctionCountRefused ==
  /\ trace # <<>>
  /\ Last(trace).kind = "dispatch"
  /\ Len(split(Last(trace).line)) = 3
  /\ SubSeq(split(Last(trace).line), 1, 2) = <<"dis", "-offsets">>
  /\ getAsInteger(split(Last(trace).line)[3]).value >= FunctionCount
  /\ \E id \in 0..9 : Texts(output) = {NoFunction(id)}

\* C12: at-virtual with an offset that resolves to no function writes the
\* invalid-offset message and never invokes the function-metadata renderer;
\* with an offset that resolves to a function id the renderer is invoked
\* exactly once with that id.
AtVirtualWithOffset(t) ==
  /\ t # <<>>
  /\ Canonical(t[1]) = "at-virtual"
  /\ Len(t) = 2
  /\ ~getAsInteger(t[2]).fail

AtVirtualResolvesOrRefuses ==
  \A i \in Dispatches :
    LET t == split(trace[i].line)
        r == trace[i].res
        off == getAsInteger(t[2]).value
        f == getFunctionFromVirtualOffset(off)
    IN  AtVirtualWithOffset(t)
          => IF f = {}
             THEN /\ InvalidOffset(off) \in Texts(r.out)
                  /\ CallsOf(r.calls, RenderOps) = {}
             ELSE /\ Cardinality(CallsOf(r.calls, {"dumpFunctionInfo"})) = 1
                  /\ \A k \in CallsOf(r.calls, {"dumpFunctionInfo"}) :
                       {r.calls[k].args[1]} = f
                  /\ InvalidOffset(off) \notin Texts(r.out)

\* at_virtual 0 has been dispatched: offset 0 lies before every function
AtVirtualZeroRefused ==
  /\ trace # <<>>
  /\ Last(trace).kind = "dispatch"
  /\ split(Last(trace).line) = <<"at_virtual", "0">>
  /\ InvalidOffset(0) \in Texts(output)
  /\ Last(trace).res.calls # <<>>

\* C13: flag position is insignificant: a disassemble line with -offsets
\* (a function line with -used) gives the same engine call, option mask,
\* output and return value wherever the flag stands after the command token;
\* only the first occurrence is removed, a second one stays as a positional
\* argument.
RECURSIVE Join(_)
Join(t) ==
  IF t = <<>> THEN <<>>
  ELSE (IF t[1] = "" THEN <<>> ELSE <<t[1]>>)
       \o (IF Len(t) = 1 THEN <<>> ELSE <<SP>> \o Join(Tail(t)))

FlagOf(t) ==
  CASE Canonical(t[1]) = "disassemble" -> "-offsets"
    [] Canonical(t[1]) = "function" -> "-used"
    [] OTHER -> ""

Occurrences(t, x) == {k \in 1..Len(t) : t[k] = x}

RemoveAt(t, k) == SubSeq(t, 1, k - 1) \o SubSeq(t, k + 1, Len(t))

InsertAt(t, k, x) == SubSeq(t, 1, k - 1) \o <<x>> \o SubSeq(t, k, Len(t))

\* the token sequences that differ from t only in where the first
\* occurrence of the flag stands
FlagMoved(t) ==
  LET rest == RemoveAt(t, Min(Occurrences(t, FlagOf(t))))
  IN  {InsertAt(rest, k, FlagOf(t)) : k \in 2..(Len(rest) + 1)}

FlagPositionInsignificant ==
  \A i \in Dispatches :
    LET t == split(trace[i].line)
        r == trace[i].res
    IN  (t # <<>> /\ FlagOf(t) # "" /\ Occurrences(t, FlagOf(t)) # {})
          => /\ \A v \in FlagMoved(t) :
                  executeCommand(ActiveStream(outFile), trace[i].before, Join(v)) = r
             /\ \A k \in CallsOf(r.calls, {"disassemble", "disassembleFunction"}) :
                  "IncludeVirtualOffsets" \in r.calls[k].options
             /\ (FlagOf(t) = "-offsets" /\ Cardinality(Occurrences(t, "-offsets")) >= 2)
                  => /\ r.calls = <<>>
                     /\ Len(t) = 3 => Texts(r.out) = {CannotParse("func_id")}

\* disassemble -offsets 1 has been dispatched and rendered function 1 with
\* virtual offsets
DisassembleFlagFirstRendered ==
  /\ trace # <<>>
  /\ Last(trace).kind = "dispatch"
  /\ split(Last(trace).line) = <<"disassemble", "-offsets", "1">>
  /\ Len(Last(trace).res.calls) = 1
  /\ Last(trace).res.calls[1].op = "disassembleFunction"
  /\ Last(trace).res.calls[1].args = <<1>>
  /\ "IncludeVirtualOffsets" \in Last(trace).res.calls[1].options

\* C14: alias equivalence: a line and the same line with its command token
\* replaced by the other spelling of the pair (function/fun,
\* instruction/inst, disassemble/dis, string/str, summary/sum, epilogue/epi,
\* at-virtual/at_virtual, help/h) invoke the same engine operation with the
\* same argument, write the same output and return the same flag, for
\* argument tokens of a legal count.
AliasPartner(c) ==
  CASE c = "function" -> "fun"          [] c = "fun" -> "function"
    [] c = "instruction" -> "inst"      [] c = "inst" -> "instruction"
    [] c = "disassemble" -> "dis"       [] c = "dis" -> "disassemble"
    [] c = "string" -> "str"            [] c = "str" -> "string"
    [] c = "summary" -> "sum"           [] c = "sum" -> "summary"
    [] c = "epilogue" -> "epi"          [] c = "epi" -> "epilogue"
    [] c = "at-virtual" -> "at_virtual" [] c = "at_virtual" -> "at-virtual"
    [] c = "help" -> "h"                [] c = "h" -> "help"
    [] OTHER -> c

LegalCount(t) ==
  Canonical(t[1]) \in ArityNames
    => Len(Remaining(t)) \in LegalCounts(Canonical(t[1]))

AliasEquivalence ==
  \A i \in Dispatches :
    LET t == split(trace[i].line)
        r == trace[i].res
    IN  (t # <<>> /\ AliasPartner(t[1]) # t[1] /\ LegalCount(t))
          => executeCommand(ActiveStream(outFile), trace[i].before,
                            Join(<<AliasPartner(t[1])>> \o Tail(t))) = r

\* fun 1 has been dispatched and rendered the basic block statistics of
\* function 1
FunWithIdRendered ==
  /\ trace # <<>>
  /\ Last(trace).kind = "dispatch"
  /\ split(Last(trace).line) = <<"fun", "1">>
  /\ Len(Last(trace).res.calls) = 1
  /\ Last(trace).res.calls[1].op = "dumpFunctionBasicBlockStat"
  /\ Last(trace).res.calls[1].args = <<1>>

\* C15: help with an unregistered name writes exactly the invalid-command
\* diagnostic and lists nothing; help with no argument writes the top-level
\* text and then every registered name exactly once; help with a registered
\* name writes exactly its usage text; none terminates or writes the blank
\* line.  A name is a non-empty token: printHelp takes an empty one for no
\* name, so help followed by a space lists the names as bare help does, and
\* so does help with two or more arguments.
NameLines == {<<n, "\n">> : n \in commandToHelpText}

Listed(out, n) == {k \in 1..Len(out) : out[k].text = <<n, "\n">>}

HelpRenders ==
  \A i \in Dispatches :
    LET t == split(trace[i].line)
        r == trace[i].res
    IN  (t # <<>> /\ t[1] \in {"help", "h"})
          => /\ ~r.term
             /\ r.calls = <<>>
             /\ Blank \notin Texts(r.out)
             /\ (Len(t) = 2 /\ t[2] # "" /\ t[2] \notin commandToHelpText)
                  => /\ Len(r.out) = 1
                     /\ r.out[1].text = InvalidCommand(t[2])
                     /\ Texts(r.out) \cap NameLines = {}
             /\ (Len(t) # 2 \/ t[2] = "")
                  => /\ r.out[1].text = TopLevelHelpText
                     /\ Len(r.out) = 1 + Cardinality(commandToHelpText)
                     /\ \A n \in commandToHelpText :
                          Cardinality(Listed(r.out, n)) = 1
             /\ (Len(t) = 2 /\ t[2] \in commandToHelpText)
                  => /\ Len(r.out) = 1
                     /\ r.out[1].text = UsageText(t[2])

\* help x has been dispatched: one write, the diagnostic for x
HelpUnknownNameDispatched ==
  /\ trace # <<>>
  /\ Last(trace).kind = "dispatch"
  /\ split(Last(trace).line) = <<"help", "x">>
  /\ Texts(output) = {InvalidCommand("x")}

\* C16: a line whose first token is not in the command table, the empty
\* token of a line that starts with a space included, renders only the
\* invalid-command diagnostic for that token, lists no names, calls no
\* engine operation, writes no blank line and does not terminate.
UnknownFirstToken(t) ==
  /\ t # <<>>
  /\ t[1] \notin CommandNames

OnlyInvalidCommand(t, r) ==
  /\ Len(r.out) = 1
  /\ r.out[1].text = InvalidCommand(t[1])
  /\ Texts(r.out) \cap NameLines = {}
  /\ r.calls = <<>>
  /\ Blank \notin Texts(r.out)
  /\ ~r.term

UnknownCommandRendersDiagnostic ==
  \A i \in Dispatches :
    LET t == split(trace[i].line)
    IN  UnknownFirstToken(t) => OnlyInvalidCommand(t, trace[i].res)

\* as amended: the diagnostic for a non-empty unknown first token; for an
\* empty first token the top-level help text and the listing of the names
UnknownCommandRendersDiagnosticOrListing ==
  \A i \in Dispatches :
    LET t == split(trace[i].line)
        r == trace[i].res
    IN  UnknownFirstToken(t)
          => IF t[1] # ""
             THEN OnlyInvalidCommand(t, r)
             ELSE /\ r.out[1].text = TopLevelHelpText
                  /\ Len(r.out) = 1 + Cardinality(commandToHelpText)
                  /\ \A n \in commandToHelpText :
                       Cardinality(Listed(r.out, n)) = 1
                  /\ r.calls = <<>>
                  /\ Blank \notin Texts(r.out)
                  /\ ~r.term

\* a line that starts with a space has been dispatched and got the listing
LeadingSpaceLineDispatched ==
  /\ trace # <<>>
  /\ Last(trace).kind = "dispatch"
  /\ Last(trace).line = <<SP, "x">>
  /\ Len(output) = 1 + Cardinality(commandToHelpText)

\* C17: when --show-section-ranges is set and startup succeeds, the program
\* prints the section ranges and exits without entering the command loop,
\* with or without --profile-file: no dispatch, no prompt, and once main has
\* moved on the section ranges are written and the process is at its exit.
SectionRangesInsteadOfLoop ==
  (showSectionRanges /\ fault = "none")
    => /\ Dispatches = {}
       /\ PromptWrites = {}
       /\ pc \in {"main", "exit"}
       /\ pc = "exit" => Texts(output) = {SectionRanges}

\* C18: at process exit the exit code is non-zero exactly when one of the
\* fatal startup failures occurred, and then nothing was dispatched and no
\* prompt was written; every other run exits with 0, whatever the commands
\* reported and however the session ended.
ExitCodeReflectsStartupFailure ==
  pc = "exit"
    => /\ exitCode # 0 <=> fault # "none"
       /\ fault # "none"
            => /\ Dispatches = {}
               /\ PromptWrites = {}
               /\ trace = <<>>
               /\ Texts(output) = {ErrorText(fault)}
       /\ fault = "none" => exitCode = 0

\* the process has exited because the profile file could not be opened
ExitedOnProfileOpenFailure ==
  /\ pc = "exit"
  /\ fault = "profileOpen"
  /\ exitCode # 0
  /\ output = <<W(Errs, ErrorText("profileOpen"))>>

\* a session that saw a command-local error and ended at end of input has
\* exited with 0
ExitedZeroAfterCommandError ==
  /\ pc = "exit"
  /\ exitCode = 0
  /\ Texts(output) \cap CannotParseTexts # {}
  /\ Last(trace).kind = "eof"

\* C20: at every disassembly render the option mask is the baseline plus
\* IncludeVirtualOffsets exactly when the command of that dispatch carried
\* -offsets: IncludeSource and IncludeFunctionIds are set, Pretty and
\* Objdump are set exactly as the format chosen at startup says, and
\* nothing else is set, whatever earlier commands asked for.
DisassemblyOps == {"disassemble", "disassembleFunction"}

RenderMaskIsBaselinePlusOffsets ==
  \A i \in Dispatches :
    LET t == split(trace[i].line)
        r == trace[i].res
    IN  \A k \in CallsOf(r.calls, DisassemblyOps) :
          LET o == r.calls[k].options
          IN  /\ {"IncludeSource", "IncludeFunctionIds"} \subseteq o
              /\ "Pretty" \in o <=> format = "Pretty"
              /\ "Objdump" \in o <=> format = "Objdump"
              /\ "IncludeVirtualOffsets" \in o <=> "-offsets" \in Range(t)
              /\ o \subseteq {"IncludeSource", "IncludeFunctionIds", "Pretty",
                              "Objdump", "IncludeVirtualOffsets"}
              /\ o = IF "-offsets" \in Range(t)
                     THEN BaselineOptions(format) \cup {"IncludeVirtualOffsets"}
                     ELSE BaselineOptions(format)

\* a render with virtual offsets was followed by a render of a later command
\* that did not ask for them
OffsetsRenderThenPlainRender ==
  \E i, j \in Dispatches :
    /\ i < j
    /\ "-offsets" \in Range(split(trace[i].line))
    /\ "-offsets" \notin Range(split(trace[j].line))
    /\ CallsOf(trace[i].res.calls, DisassemblyOps) # {}
    /\ CallsOf(trace[j].res.calls, DisassemblyOps) # {}
    /\ "IncludeVirtualOffsets" \in trace[i].res.calls[1].options
    /\ "IncludeVirtualOffsets" \notin trace[j].res.calls[1].options

\* C19: the line reader reports "no line" only on a read that failed
\* without an interruption; an interrupted read clears the stream's error
\* state and is retried, so the interruption itself changes nothing the
\* session can see and never ends it; and, interruptions being finitely
\* many, every call of the reader eventually returns a line or "no line".
InterruptedReadIsRetried ==
  interrupts' # interrupts
    => /\ pc = "getline" /\ pc' = "getline"
       /\ ~cinFail'
       /\ UNCHANGED <<trace, output, line, terminateLoop, options>>

NoLineOnlyWithoutInterruption ==
  (pc = "getline" /\ pc' = "done")
    => /\ interrupts' = interrupts
       /\ Last(trace').kind = "eof"

GetlineRetriesUntilLineOrNoLine ==
  /\ [](pc = "getline" => ~cinFail)
  /\ [][InterruptedReadIsRetried]_vars
  /\ [][NoLineOnlyWithoutInterruption]_vars
  /\ (pc = "getline" ~> pc \in {"dispatch", "done"})

\* a read was interrupted and the retry then returned a line
LineReadAfterInterruption ==
  /\ interrupts > 0
  /\ pc = "dispatch"
  /\ ~cinFail
  /\ Last(trace).kind = "read"

====
